---- MODULE Spec2Model ----
(***************************************************************************)
(* crcrypt: password based AES-CBC / AES-GCM text encryption               *)
(* (src/src/utils/crypto.js).                                              *)
(*                                                                         *)
(* encrypt and decrypt are modelled statement by statement.  Strings are   *)
(* sequences of one-character strings (tokens) or of UTF-16 code units     *)
(* (texts, passwords); buffers are sequences of bytes 0..255.              *)
(*                                                                         *)
(* The primitives of node:crypto are modelled by what they do to the       *)
(* framing: PBKDF2 is a deterministic function of the HMAC key block of    *)
(* the password, the salt and the iteration count; AES-CBC is a chained    *)
(* byte-wise block cipher with PKCS#7 padding; AES-GCM is a counter mode   *)
(* with a 16 byte tag over key, IV and ciphertext.  Addition modulo 256    *)
(* stands for XOR and for the AES permutation.  For the inputs the model   *)
(* draws, two different keys never give the same keystream or tag, so no   *)
(* behaviour of the model rests on a collision of the stand-in cipher.     *)
(***************************************************************************)
EXTENDS Integers, Sequences, FiniteSets, TLC

(***************************************************************************)
(* Bounds of the model.                                                    *)
(***************************************************************************)
MaxSaltLen == 1
MaxIter == 2

(***************************************************************************)
(* Hexadecimal: Buffer.toString('hex'), Buffer.from(s, 'hex') and the      *)
(* 'hex' input/output encodings of Cipher/Decipher.                        *)
(***************************************************************************)
HexDigits == <<"0", "1", "2", "3", "4", "5", "6", "7",
               "8", "9", "a", "b", "c", "d", "e", "f">>

HexValue == [c \in {"0", "1", "2", "3", "4", "5", "6", "7", "8", "9",
                    "a", "b", "c", "d", "e", "f",
                    "A", "B", "C", "D", "E", "F"} |->
               CASE c = "0" -> 0  [] c = "1" -> 1  [] c = "2" -> 2
                 [] c = "3" -> 3  [] c = "4" -> 4  [] c = "5" -> 5
                 [] c = "6" -> 6  [] c = "7" -> 7  [] c = "8" -> 8
                 [] c = "9" -> 9
                 [] c \in {"a", "A"} -> 10 [] c \in {"b", "B"} -> 11
                 [] c \in {"c", "C"} -> 12 [] c \in {"d", "D"} -> 13
                 [] c \in {"e", "E"} -> 14 [] c \in {"f", "F"} -> 15]

IsHexDigit(c) == c \in DOMAIN HexValue

\* buf.toString('hex'): two lowercase digits per byte.
HexEncode(bytes) ==
    [k \in 1..(2 * Len(bytes)) |->
        IF k % 2 = 1 THEN HexDigits[(bytes[(k + 1) \div 2] \div 16) + 1]
                     ELSE HexDigits[(bytes[k \div 2] % 16) + 1]]

\* Number of leading well formed digit pairs of s.
HexPairs(s) ==
    LET bad == {k \in 1..(Len(s) \div 2) :
                  ~(IsHexDigit(s[2 * k - 1]) /\ IsHexDigit(s[2 * k]))}
    IN IF bad = {} THEN Len(s) \div 2
       ELSE (CHOOSE k \in bad : \A j \in bad : k <= j) - 1

\* Buffer.from(s, 'hex'): case-insensitive, stops at the first pair that is
\* not two hex digits, drops a trailing odd digit.
HexDecode(s) ==
    [k \in 1..HexPairs(s) |-> 16 * HexValue[s[2 * k - 1]] + HexValue[s[2 * k]]]

(***************************************************************************)
(* String.prototype.split(':') and template-literal joining.               *)
(***************************************************************************)
\* The fields between the colons of s; a string without colon is one field.
Split(s) ==
    LET colons == {i \in 1..Len(s) : s[i] = ":"}
        n == Cardinality(colons)
        pos(k) == IF k = 0 THEN 0
                  ELSE IF k = n + 1 THEN Len(s) + 1
                  ELSE CHOOSE i \in colons : Cardinality({j \in colons : j <= i}) = k
    IN [k \in 1..(n + 1) |-> SubSeq(s, pos(k - 1) + 1, pos(k) - 1)]

RECURSIVE Join(_)
Join(fields) ==
    IF Len(fields) = 0 THEN <<>>
    ELSE IF Len(fields) = 1 THEN fields[1]
    ELSE fields[1] \o <<":">> \o Join(Tail(fields))

(***************************************************************************)
(* UTF-8.  A text is a JavaScript string: a sequence of UTF-16 code units. *)
(***************************************************************************)
IsHighSurrogate(u) == u >= 55296 /\ u <= 56319
IsLowSurrogate(u) == u >= 56320 /\ u <= 57343
ReplacementBytes == <<239, 191, 189>>

\* A string is well formed when every surrogate is half of a pair.
RECURSIVE WellFormedFrom(_, _)
WellFormedFrom(t, i) ==
    IF i > Len(t) THEN TRUE
    ELSE IF IsHighSurrogate(t[i])
         THEN i < Len(t) /\ IsLowSurrogate(t[i + 1]) /\ WellFormedFrom(t, i + 2)
    ELSE IF IsLowSurrogate(t[i]) THEN FALSE
    ELSE WellFormedFrom(t, i + 1)

WellFormed(t) == WellFormedFrom(t, 1)

\* Encoding a string as 'utf8': an unpaired surrogate becomes U+FFFD.
RECURSIVE Utf8EncodeFrom(_, _)
Utf8EncodeFrom(t, i) ==
    IF i > Len(t) THEN <<>>
    ELSE LET u == t[i] IN
      IF u < 128 THEN <<u>> \o Utf8EncodeFrom(t, i + 1)
      ELSE IF u < 2048
        THEN <<192 + (u \div 64), 128 + (u % 64)>> \o Utf8EncodeFrom(t, i + 1)
      ELSE IF IsHighSurrogate(u) /\ i < Len(t) /\ IsLowSurrogate(t[i + 1])
        THEN LET cp == 65536 + (u - 55296) * 1024 + (t[i + 1] - 56320) IN
             <<240 + (cp \div 262144), 128 + ((cp \div 4096) % 64),
               128 + ((cp \div 64) % 64), 128 + (cp % 64)>>
             \o Utf8EncodeFrom(t, i + 2)
      ELSE IF IsHighSurrogate(u) \/ IsLowSurrogate(u)
        THEN ReplacementBytes \o Utf8EncodeFrom(t, i + 1)
      ELSE <<224 + (u \div 4096), 128 + ((u \div 64) % 64), 128 + (u % 64)>>
             \o Utf8EncodeFrom(t, i + 1)

Utf8Encode(t) == Utf8EncodeFrom(t, 1)

IsCont(b, i) == i <= Len(b) /\ b[i] >= 128 /\ b[i] <= 191
InRange(b, i, lo, hi) == i <= Len(b) /\ b[i] >= lo /\ b[i] <= hi

\* Decoding bytes as 'utf8' (StringDecoder over update + final): every
\* maximal ill-formed subsequence becomes one U+FFFD.
RECURSIVE Utf8DecodeFrom(_, _)
Utf8DecodeFrom(b, i) ==
    IF i > Len(b) THEN <<>>
    ELSE LET b0 == b[i] IN
      IF b0 < 128 THEN <<b0>> \o Utf8DecodeFrom(b, i + 1)
      ELSE IF b0 >= 194 /\ b0 <= 223 THEN
        IF IsCont(b, i + 1)
        THEN <<(b0 - 192) * 64 + (b[i + 1] - 128)>> \o Utf8DecodeFrom(b, i + 2)
        ELSE <<65533>> \o Utf8DecodeFrom(b, i + 1)
      ELSE IF b0 >= 224 /\ b0 <= 239 THEN
        LET lo == IF b0 = 224 THEN 160 ELSE 128
            hi == IF b0 = 237 THEN 159 ELSE 191 IN
        IF ~InRange(b, i + 1, lo, hi) THEN <<65533>> \o Utf8DecodeFrom(b, i + 1)
        ELSE IF ~IsCont(b, i + 2) THEN <<65533>> \o Utf8DecodeFrom(b, i + 2)
        ELSE <<(b0 - 224) * 4096 + (b[i + 1] - 128) * 64 + (b[i + 2] - 128)>>
             \o Utf8DecodeFrom(b, i + 3)
      ELSE IF b0 >= 240 /\ b0 <= 244 THEN
        LET lo == IF b0 = 240 THEN 144 ELSE 128
            hi == IF b0 = 244 THEN 143 ELSE 191 IN
        IF ~InRange(b, i + 1, lo, hi) THEN <<65533>> \o Utf8DecodeFrom(b, i + 1)
        ELSE IF ~IsCont(b, i + 2) THEN <<65533>> \o Utf8DecodeFrom(b, i + 2)
        ELSE IF ~IsCont(b, i + 3) THEN <<65533>> \o Utf8DecodeFrom(b, i + 3)
        ELSE LET cp == (b0 - 240) * 262144 + (b[i + 1] - 128) * 4096
                       + (b[i + 2] - 128) * 64 + (b[i + 3] - 128)
                 v == cp - 65536 IN
             <<55296 + (v \div 1024), 56320 + (v % 1024)>>
             \o Utf8DecodeFrom(b, i + 4)
      ELSE <<65533>> \o Utf8DecodeFrom(b, i + 1)

Utf8Decode(b) == Utf8DecodeFrom(b, 1)

(***************************************************************************)
(* The parameter table and validateAlgorithmParameters.                    *)
(***************************************************************************)
SupportedAlgorithms ==
    {"aes-256-cbc", "aes-256-gcm", "aes-128-gcm",
     "aes-128-cbc", "aes-192-cbc", "aes-192-gcm"}

\* Property names every object literal inherits from Object.prototype; the
\* model draws one of them.
ObjectPrototypeKeys == {"constructor"}

\* algorithmSpecs[algorithm]: an own entry, an inherited property (truthy,
\* with no keyLength and no ivLength), or undefined.
algorithmSpecs(algorithm) ==
    CASE algorithm = "aes-256-cbc" -> [kind |-> "entry", keyLength |-> 32, ivLength |-> 16]
      [] algorithm = "aes-256-gcm" -> [kind |-> "entry", keyLength |-> 32, ivLength |-> 12]
      [] algorithm = "aes-128-gcm" -> [kind |-> "entry", keyLength |-> 16, ivLength |-> 12]
      [] algorithm = "aes-128-cbc" -> [kind |-> "entry", keyLength |-> 16, ivLength |-> 16]
      [] algorithm = "aes-192-cbc" -> [kind |-> "entry", keyLength |-> 24, ivLength |-> 16]
      [] algorithm = "aes-192-gcm" -> [kind |-> "entry", keyLength |-> 24, ivLength |-> 12]
      [] algorithm \in ObjectPrototypeKeys -> [kind |-> "inherited"]
      [] OTHER -> [kind |-> "undefined"]

\* Mutant: the IV length is checked before the key length.
validateAlgorithmParameters_IvFirst(algorithm, keyLength, ivLength) ==
    LET spec == algorithmSpecs(algorithm) IN
    IF spec.kind = "undefined" THEN "InvalidAlgorithm"
    ELSE IF spec.kind = "inherited" THEN "KeyLengthMismatch"
    ELSE IF ivLength # spec.ivLength THEN "IVLengthMismatch"
    ELSE IF keyLength # spec.keyLength THEN "KeyLengthMismatch"
    ELSE "Ok"

\* "Ok", or the error thrown.  For an inherited property spec.keyLength is
\* undefined, and keyLength !== undefined holds of every number.
validateAlgorithmParameters(algorithm, keyLength, ivLength) ==
    LET spec == algorithmSpecs(algorithm) IN
    IF spec.kind = "undefined" THEN "InvalidAlgorithm"
    ELSE IF spec.kind = "inherited" THEN "KeyLengthMismatch"
    ELSE IF keyLength # spec.keyLength THEN "KeyLengthMismatch"
    ELSE IF ivLength # spec.ivLength THEN "IVLengthMismatch"
    ELSE "Ok"

\* algorithm.includes('gcm')
IsGcm(algorithm) ==
    algorithm \in {"aes-256-gcm", "aes-128-gcm", "aes-192-gcm"}

(***************************************************************************)
(* crypto.randomBytes: the outcome is a choice of the environment.         *)
(***************************************************************************)
RandomSeeds == {7, 200}

RandomBytes(n, seed) == [i \in 1..n |-> (seed + 41 * i) % 256]

(***************************************************************************)
(* deriveKey: PBKDF2-HMAC-SHA256.  HMAC right-pads a key shorter than the  *)
(* 64 byte block of SHA-256 with zero bytes, so the derived key depends on *)
(* the password only through that block.                                   *)
(***************************************************************************)
HmacKeyBlock(passwordBytes) ==
    [i \in 1..64 |-> IF i <= Len(passwordBytes) THEN passwordBytes[i] ELSE 0]

\* Sum of the bytes, each weighted by an odd number that depends on its
\* position; a zero byte adds nothing.
RECURSIVE WeightedSum(_, _)
WeightedSum(bytes, j) ==
    IF j > Len(bytes) THEN 0
    ELSE ((2 * j - 1) * bytes[j] + WeightedSum(bytes, j + 1)) % 256

\* Every byte of the derived key depends on the whole key block, the whole
\* salt, its length and the iteration count.
pbkdf2Sync(password, salt, iterations, keyLength) ==
    LET pwMix == WeightedSum(HmacKeyBlock(Utf8Encode(password)), 1)
        saltMix == WeightedSum(salt, 1) + 29 * Len(salt)
    IN [i \in 1..keyLength |->
          ((2 * i + 1) * (pwMix + 31) + (2 * i + 3) * saltMix
             + 7 * i * iterations + 13 * i) % 256]

deriveKey(password, salt, iterations, keyLength) ==
    pbkdf2Sync(password, salt, iterations, keyLength)

(***************************************************************************)
(* AES-CBC with PKCS#7 padding (createCipheriv / createDecipheriv on a     *)
(* '-cbc' algorithm, update + final).                                      *)
(***************************************************************************)
Pkcs7Pad(bytes) ==
    LET n == 16 - (Len(bytes) % 16) IN
    bytes \o [i \in 1..n |-> n]

CbcEncrypt(key, iv, plain) ==
    LET P == Pkcs7Pad(plain)
        c[k \in 1..Len(P)] ==
            (P[k] + (IF k <= 16 THEN iv[k] ELSE c[k - 16])
                  + key[((k - 1) % 16) + 1] + key[Len(key)]) % 256
    IN [k \in 1..Len(P) |-> c[k]]

\* The padded plaintext under this key; final() checks the padding.
CbcDecryptRaw(key, iv, ct) ==
    [k \in 1..Len(ct) |->
        (ct[k] + 768 - (IF k <= 16 THEN iv[k] ELSE ct[k - 16])
               - key[((k - 1) % 16) + 1] - key[Len(key)]) % 256]

\* [kind |-> "ok", bytes] or [kind |-> "error", error].
CbcDecrypt(key, iv, ct) ==
    IF Len(ct) = 0 \/ Len(ct) % 16 # 0
    THEN [kind |-> "error", error |-> "WrongFinalBlockLength"]
    ELSE LET P == CbcDecryptRaw(key, iv, ct)
             n == P[Len(P)]
         IN IF n >= 1 /\ n <= 16 /\ \A k \in (Len(P) - n + 1)..Len(P) : P[k] = n
            THEN [kind |-> "ok", bytes |-> SubSeq(P, 1, Len(P) - n)]
            ELSE [kind |-> "error", error |-> "PaddingOrKeyError"]

(***************************************************************************)
(* AES-GCM (createCipheriv / createDecipheriv on a '-gcm' algorithm, no    *)
(* authTagLength option).                                                  *)
(***************************************************************************)
GcmKeystream(key, iv, k) ==
    (key[((k - 1) % Len(key)) + 1] + iv[((k - 1) % Len(iv)) + 1] + k) % 256

GcmEncrypt(key, iv, plain) ==
    [k \in 1..Len(plain) |-> (plain[k] + GcmKeystream(key, iv, k)) % 256]

GcmDecryptRaw(key, iv, ct) ==
    [k \in 1..Len(ct) |-> (ct[k] + 256 - GcmKeystream(key, iv, k)) % 256]

RECURSIVE LaneSum(_, _)
LaneSum(ct, k) == IF k > Len(ct) THEN 0 ELSE ct[k] + 1 + LaneSum(ct, k + 16)

\* cipher.getAuthTag(): 16 bytes.
GcmTag(key, iv, ct) ==
    [i \in 1..16 |->
        (key[i] + iv[((i - 1) % Len(iv)) + 1] + LaneSum(ct, i) + i * Len(ct)) % 256]

\* decipher.setAuthTag without authTagLength accepts these tag lengths.
ValidGcmTagLengths == {4, 8, 12, 13, 14, 15, 16}

\* decipher.final(): the given tag is compared with as many bytes of the
\* computed tag as it has.
GcmTagMatches(key, iv, ct, tag) ==
    tag = SubSeq(GcmTag(key, iv, ct), 1, Len(tag))

(***************************************************************************)
(* Inputs.                                                                 *)
(***************************************************************************)
\* The six supported identifiers, an unknown one, and an inherited
\* property name.
Algorithms == SupportedAlgorithms \cup {"aes-512-cbc"} \cup ObjectPrototypeKeys
KeyLengths == {16, 24, 32}
IvLengths == {12, 16}
SaltLengths == 0..MaxSaltLen
IterationCounts == 1..MaxIter

Settings ==
    [algorithm : Algorithms, saltLength : SaltLengths, ivLength : IvLengths,
     keyLength : KeyLengths, iterations : IterationCounts]

\* A text of exactly one AES block, so that CBC emits two blocks.
OneBlockText == [i \in 1..16 |-> 97]

\* "", "a", "a" followed by U+1F600 (a surrogate pair), an unpaired high
\* surrogate, an unpaired low surrogate followed by "a", and sixteen "a".
Texts ==
    { <<>>, <<97>>, <<97, 55357, 56832>>, <<55357>>, <<56832, 97>>, OneBlockText }

\* "", "p" and "p\u0000".
Passwords == {<<>>, <<112>>, <<112, 0>>}

(***************************************************************************)
(* Strings handed to decrypt: handcrafted ones, and the last token that    *)
(* encrypt returned, intact, extended or altered in one field.  The last   *)
(* token is forgotten when the next encrypt starts.                        *)
(***************************************************************************)
ReplaceField(fields, n, f) == [fields EXCEPT ![n] = f]

\* Another hex string of the same length: the first digit is changed.
FlipFirstDigit(f) ==
    IF Len(f) = 0 THEN <<"0", "0">>
    ELSE [f EXCEPT ![1] = IF f[1] = "0" THEN "1" ELSE "0"]

UpperCase(f) ==
    [k \in 1..Len(f) |->
        CASE f[k] = "a" -> "A" [] f[k] = "b" -> "B" [] f[k] = "c" -> "C"
          [] f[k] = "d" -> "D" [] f[k] = "e" -> "E" [] f[k] = "f" -> "F"
          [] OTHER -> f[k]]

FixedTokens ==
    { <<>>,
      <<"a", "b", ":", "c", "d">>,
      <<"z", "z", ":", "z", "z", ":", "z", "z">>,
      Join(<<HexEncode(<<1>>), HexEncode(RandomBytes(16, 7)),
             HexEncode(RandomBytes(16, 9))>>),
      Join(<<HexEncode(<<1>>), HexEncode(RandomBytes(12, 7)),
             HexEncode(RandomBytes(2, 9))>>) }

Suffixes == { <<"f", "f">>, <<"x", ":", "y">> }

TokenVariants(t) ==
    LET f == Split(t) IN
      {t}
      \cup {t \o <<":">> \o s : s \in Suffixes}
      \cup {Join(ReplaceField(f, 3, FlipFirstDigit(f[3]))),
            Join(ReplaceField(f, 3, UpperCase(f[3])))}
      \cup (IF Len(f) < 4 THEN {}
            ELSE {Join(ReplaceField(f, 4, FlipFirstDigit(f[4]))),
                  Join(ReplaceField(f, 4, UpperCase(f[4]))),
                  Join(ReplaceField(f, 4, SubSeq(f[4], 1, 8))),
                  Join(ReplaceField(f, 4, SubSeq(f[4], 1, 6))),
                  Join(SubSeq(f, 1, 3))})

(***************************************************************************)
(* State.                                                                  *)
(***************************************************************************)
VARIABLES
    settings,   \* the configuration both operations are called with
    pc,         \* position in the running call
    call,       \* the running call and its string arguments
    salt, iv, key, parts, encrypted, tag,   \* locals of the call
    validation, \* the call of validateAlgorithmParameters and its outcome
    rngCalls,   \* crypto.randomBytes calls made by the running call
    derived,    \* deriveKey has been called by the running call
    cipher,     \* createCipheriv / createDecipheriv has been called
    result,     \* what the call returned or threw
    last        \* the last successful encrypt: password, text, token

locals == <<salt, iv, key, parts, encrypted, tag, validation, rngCalls, derived, cipher>>
vars == <<settings, pc, call, locals, result, last>>

NoTag == [present |-> FALSE]
NotValidated == [outcome |-> "none"]

FreshLocals ==
    /\ salt' = <<>>
    /\ iv' = <<>>
    /\ key' = <<>>
    /\ parts' = <<>>
    /\ encrypted' = <<>>
    /\ tag' = NoTag
    /\ validation' = NotValidated
    /\ rngCalls' = 0
    /\ derived' = FALSE
    /\ cipher' = FALSE

Throw(e) ==
    /\ result' = [kind |-> "error", error |-> e]
    /\ pc' = "done"

Init ==
    /\ settings \in Settings
    /\ pc = "idle"
    /\ call = [op |-> "none"]
    /\ salt = <<>>
    /\ iv = <<>>
    /\ key = <<>>
    /\ parts = <<>>
    /\ encrypted = <<>>
    /\ tag = NoTag
    /\ validation = NotValidated
    /\ rngCalls = 0
    /\ derived = FALSE
    /\ cipher = FALSE
    /\ result = [kind |-> "none"]
    /\ last = [kind |-> "none"]

(***************************************************************************)
(* encrypt(password, text, saltLength, ivLength, algorithm, iterations,    *)
(*         keyLength)                                                      *)
(***************************************************************************)
\* Entry and the empty-text check.
EncryptEntry(password, text) ==
    /\ pc = "idle"
    /\ call' = [op |-> "encrypt", password |-> password, text |-> text]
    /\ FreshLocals
    /\ IF Len(text) = 0
       THEN Throw("EmptyInput")
       ELSE /\ pc' = "enc_salt"
            /\ result' = [kind |-> "none"]
    /\ last' = [kind |-> "none"]
    /\ UNCHANGED settings

EncSalt ==
    /\ pc = "enc_salt"
    /\ \E seed \in RandomSeeds : salt' = RandomBytes(settings.saltLength, seed)
    /\ rngCalls' = rngCalls + 1
    /\ pc' = "enc_iv"
    /\ UNCHANGED <<settings, call, iv, key, parts, encrypted, tag, validation,
                   derived, cipher, result, last>>

EncIv ==
    /\ pc = "enc_iv"
    /\ \E seed \in RandomSeeds : iv' = RandomBytes(settings.ivLength, seed)
    /\ rngCalls' = rngCalls + 1
    /\ pc' = "enc_validate"
    /\ UNCHANGED <<settings, call, salt, key, parts, encrypted, tag, validation,
                   derived, cipher, result, last>>

\* Mutant: the outcome of the validation is not acted upon.
EncValidate_NoThrow ==
    /\ pc = "enc_validate"
    /\ validation' = [outcome |-> validateAlgorithmParameters(
                                      settings.algorithm, settings.keyLength,
                                      settings.ivLength),
                      algorithm |-> settings.algorithm,
                      keyLength |-> settings.keyLength,
                      ivLength |-> settings.ivLength]
    /\ pc' = "enc_derive"
    /\ UNCHANGED <<settings, call, salt, iv, key, parts, encrypted, tag,
                   rngCalls, derived, cipher, result, last>>

EncValidate ==
    /\ pc = "enc_validate"
    /\ LET v == validateAlgorithmParameters(settings.algorithm, settings.keyLength,
                                            settings.ivLength) IN
       /\ validation' = [outcome |-> v, algorithm |-> settings.algorithm,
                         keyLength |-> settings.keyLength,
                         ivLength |-> settings.ivLength]
       /\ IF v = "Ok"
          THEN pc' = "enc_derive" /\ UNCHANGED result
          ELSE Throw(v)
    /\ UNCHANGED <<settings, call, salt, iv, key, parts, encrypted, tag,
                   rngCalls, derived, cipher, last>>

EncDeriveKey ==
    /\ pc = "enc_derive"
    /\ key' = deriveKey(call.password, salt, settings.iterations, settings.keyLength)
    /\ derived' = TRUE
    /\ pc' = "enc_cipher"
    /\ UNCHANGED <<settings, call, salt, iv, parts, encrypted, tag, validation,
                   rngCalls, cipher, result, last>>

EncCreateCipher ==
    /\ pc = "enc_cipher"
    /\ cipher' = TRUE
    /\ pc' = "enc_final"
    /\ UNCHANGED <<settings, call, salt, iv, key, parts, encrypted, tag, validation,
                   rngCalls, derived, result, last>>

\* Mutant: the tag is appended whatever the algorithm.
EncToken_AlwaysTag(algorithm, theKey, theSalt, theIv, text) ==
    LET ct == IF IsGcm(algorithm)
              THEN GcmEncrypt(theKey, theIv, Utf8Encode(text))
              ELSE CbcEncrypt(theKey, theIv, Utf8Encode(text)) IN
    HexEncode(theSalt) \o <<":">> \o HexEncode(theIv) \o <<":">>
      \o HexEncode(ct) \o <<":">> \o HexEncode(GcmTag(theKey, theIv, ct))

\* The token of lines 44-59.
EncToken(algorithm, theKey, theSalt, theIv, text) ==
    IF IsGcm(algorithm)
    THEN LET ct == GcmEncrypt(theKey, theIv, Utf8Encode(text)) IN
         HexEncode(theSalt) \o <<":">> \o HexEncode(theIv) \o <<":">>
           \o HexEncode(ct) \o <<":">> \o HexEncode(GcmTag(theKey, theIv, ct))
    ELSE HexEncode(theSalt) \o <<":">> \o HexEncode(theIv) \o <<":">>
           \o HexEncode(CbcEncrypt(theKey, theIv, Utf8Encode(text)))

EncFinal ==
    /\ pc = "enc_final"
    /\ LET token == EncToken(settings.algorithm, key, salt, iv, call.text) IN
       /\ result' = [kind |-> "ok", value |-> token]
       /\ last' = [kind |-> "ok", password |-> call.password, text |-> call.text,
                   token |-> token]
    /\ pc' = "done"
    /\ UNCHANGED <<settings, call, locals>>

(***************************************************************************)
(* decrypt(password, encryptedText, algorithm, iterations, keyLength)      *)
(***************************************************************************)
\* The calls of decrypt the model makes: handcrafted strings under every
\* password while no token is at hand; then the token and its extensions
\* under every password, and its altered forms under the password that
\* made it.
DecryptCalls ==
    IF last.kind = "ok"
    THEN {[password |-> pw, text |-> t] :
             pw \in Passwords,
             t \in {last.token} \cup {last.token \o <<":">> \o x : x \in Suffixes}}
         \cup {[password |-> last.password, text |-> t] : t \in TokenVariants(last.token)}
    ELSE {[password |-> pw, text |-> t] : pw \in Passwords, t \in FixedTokens}

\* Mutant: the tag is looked for one field too early.
ParseTag_OffByOne(p) ==
    IF Len(p) > 2 THEN [present |-> TRUE, bytes |-> HexDecode(p[3])]
    ELSE [present |-> FALSE]

\* Mutant: the tag is taken from the last field.
ParseTag_LastField(p) ==
    IF Len(p) > 3 THEN [present |-> TRUE, bytes |-> HexDecode(p[Len(p)])]
    ELSE [present |-> FALSE]

\* parts.length > 3 ? Buffer.from(parts[3], 'hex') : undefined
ParseTag(p) ==
    IF Len(p) > 3 THEN [present |-> TRUE, bytes |-> HexDecode(p[4])] ELSE NoTag

\* Mutant: two fields are enough.
DecryptEntry_TwoFields(password, encryptedText) ==
    /\ pc = "idle"
    /\ call' = [op |-> "decrypt", password |-> password, text |-> encryptedText]
    /\ parts' = Split(encryptedText)
    /\ salt' = <<>>
    /\ iv' = <<>>
    /\ key' = <<>>
    /\ encrypted' = <<>>
    /\ tag' = NoTag
    /\ validation' = NotValidated
    /\ rngCalls' = 0
    /\ derived' = FALSE
    /\ cipher' = FALSE
    /\ IF Len(parts') < 2
       THEN Throw("MalformedToken")
       ELSE /\ pc' = "dec_parse"
            /\ result' = [kind |-> "none"]
    /\ UNCHANGED <<settings, last>>

\* Entry, split and the field-count check.
DecryptEntry(password, encryptedText) ==
    /\ pc = "idle"
    /\ call' = [op |-> "decrypt", password |-> password, text |-> encryptedText]
    /\ parts' = Split(encryptedText)
    /\ salt' = <<>>
    /\ iv' = <<>>
    /\ key' = <<>>
    /\ encrypted' = <<>>
    /\ tag' = NoTag
    /\ validation' = NotValidated
    /\ rngCalls' = 0
    /\ derived' = FALSE
    /\ cipher' = FALSE
    /\ IF Len(parts') < 3
       THEN Throw("MalformedToken")
       ELSE /\ pc' = "dec_parse"
            /\ result' = [kind |-> "none"]
    /\ UNCHANGED <<settings, last>>

\* Mutant: the salt is read from the IV field.
DecParse_SaltFromIvField ==
    /\ pc = "dec_parse"
    /\ salt' = HexDecode(parts[2])
    /\ iv' = HexDecode(parts[2])
    /\ encrypted' = parts[3]
    /\ tag' = ParseTag(parts)
    /\ pc' = "dec_validate"
    /\ UNCHANGED <<settings, call, key, parts, validation, rngCalls, derived,
                   cipher, result, last>>

DecParse ==
    /\ pc = "dec_parse"
    /\ salt' = HexDecode(parts[1])
    /\ iv' = HexDecode(parts[2])
    /\ encrypted' = parts[3]
    /\ tag' = ParseTag(parts)
    /\ pc' = "dec_validate"
    /\ UNCHANGED <<settings, call, key, parts, validation, rngCalls, derived,
                   cipher, result, last>>

DecValidate ==
    /\ pc = "dec_validate"
    /\ LET v == validateAlgorithmParameters(settings.algorithm, settings.keyLength,
                                            Len(iv)) IN
       /\ validation' = [outcome |-> v, algorithm |-> settings.algorithm,
                         keyLength |-> settings.keyLength, ivLength |-> Len(iv)]
       /\ IF v = "Ok"
          THEN pc' = "dec_derive" /\ UNCHANGED result
          ELSE Throw(v)
    /\ UNCHANGED <<settings, call, salt, iv, key, parts, encrypted, tag,
                   rngCalls, derived, cipher, last>>

DecDeriveKey ==
    /\ pc = "dec_derive"
    /\ key' = deriveKey(call.password, salt, settings.iterations, settings.keyLength)
    /\ derived' = TRUE
    /\ pc' = "dec_decipher"
    /\ UNCHANGED <<settings, call, salt, iv, parts, encrypted, tag, validation,
                   rngCalls, cipher, result, last>>

DecCreateDecipher ==
    /\ pc = "dec_decipher"
    /\ cipher' = TRUE
    /\ pc' = IF IsGcm(settings.algorithm) THEN "dec_tag" ELSE "dec_final"
    /\ UNCHANGED <<settings, call, salt, iv, key, parts, encrypted, tag, validation,
                   rngCalls, derived, result, last>>

\* if (!tag) throw: a Buffer, even an empty one, is truthy.
DecRequireTag ==
    /\ pc = "dec_tag"
    /\ IF tag.present
       THEN pc' = "dec_settag" /\ UNCHANGED result
       ELSE Throw("MissingAuthTag")
    /\ UNCHANGED <<settings, call, locals, last>>

DecSetAuthTag ==
    /\ pc = "dec_settag"
    /\ IF Len(tag.bytes) \in ValidGcmTagLengths
       THEN pc' = "dec_final" /\ UNCHANGED result
       ELSE Throw("InvalidAuthTagLength")
    /\ UNCHANGED <<settings, call, locals, last>>

\* decipher.update(encrypted, 'hex', 'utf8') + decipher.final('utf8'): the
\* text, or the error final() throws.
DecipherResult(algorithm, theKey, theIv, theEncrypted, theTag) ==
    LET ct == HexDecode(theEncrypted) IN
    IF IsGcm(algorithm)
    THEN IF GcmTagMatches(theKey, theIv, ct, theTag.bytes)
         THEN [kind |-> "ok", value |-> Utf8Decode(GcmDecryptRaw(theKey, theIv, ct))]
         ELSE [kind |-> "error", error |-> "AuthenticationFailed"]
    ELSE LET d == CbcDecrypt(theKey, theIv, ct) IN
         IF d.kind = "ok"
         THEN [kind |-> "ok", value |-> Utf8Decode(d.bytes)]
         ELSE [kind |-> "error", error |-> d.error]

DecFinal ==
    /\ pc = "dec_final"
    /\ result' = DecipherResult(settings.algorithm, key, iv, encrypted, tag)
    /\ pc' = "done"
    /\ UNCHANGED <<settings, call, locals, last>>

\* The call is over; its result has been handed to the caller.
Return ==
    /\ pc = "done"
    /\ pc' = "idle"
    /\ call' = [op |-> "none"]
    /\ FreshLocals
    /\ result' = [kind |-> "none"]
    /\ UNCHANGED <<settings, last>>

\* decrypt as a function of its arguments: what the steps above compute.
decrypt(password, encryptedText, algorithm, iterations, keyLength) ==
    LET p == Split(encryptedText) IN
    IF Len(p) < 3 THEN [kind |-> "error", error |-> "MalformedToken"]
    ELSE LET theSalt == HexDecode(p[1])
             theIv == HexDecode(p[2])
             theTag == ParseTag(p)
             v == validateAlgorithmParameters(algorithm, keyLength, Len(theIv))
         IN IF v # "Ok" THEN [kind |-> "error", error |-> v]
            ELSE IF IsGcm(algorithm) /\ ~theTag.present
              THEN [kind |-> "error", error |-> "MissingAuthTag"]
            ELSE IF IsGcm(algorithm) /\ Len(theTag.bytes) \notin ValidGcmTagLengths
              THEN [kind |-> "error", error |-> "InvalidAuthTagLength"]
            ELSE DecipherResult(algorithm,
                                deriveKey(password, theSalt, iterations, keyLength),
                                theIv, p[3], theTag)

Next ==
    \/ \E password \in Passwords, text \in Texts : EncryptEntry(password, text)
    \/ EncSalt
    \/ EncIv
    \/ EncValidate
    \/ EncDeriveKey
    \/ EncCreateCipher
    \/ EncFinal
    \/ \E c \in DecryptCalls : DecryptEntry(c.password, c.text)
    \/ DecParse
    \/ DecValidate
    \/ DecDeriveKey
    \/ DecCreateDecipher
    \/ DecRequireTag
    \/ DecSetAuthTag
    \/ DecFinal
    \/ Return

Spec == Init /\ [][Next]_vars

(***************************************************************************)
(* Properties.                                                             *)
(***************************************************************************)
Done(op) == pc = "done" /\ call.op = op
Failed(e) == result = [kind |-> "error", error |-> e]
Returned(v) == result = [kind |-> "ok", value |-> v]

GcmIdentifiers == {"aes-128-gcm", "aes-192-gcm", "aes-256-gcm"}
CbcIdentifiers == {"aes-128-cbc", "aes-192-cbc", "aes-256-cbc"}

\* The parameter table as the specification states it.
RequiredKeyLength(a) ==
    IF a \in {"aes-128-cbc", "aes-128-gcm"} THEN 16
    ELSE IF a \in {"aes-192-cbc", "aes-192-gcm"} THEN 24 ELSE 32
RequiredIvLength(a) == IF a \in GcmIdentifiers THEN 12 ELSE 16

\* decrypt is running on, or has finished with, the intact last token.
DecryptsLastToken ==
    call.op = "decrypt" /\ last.kind = "ok" /\ call.text = last.token

\* C1 as stated: decrypting the token encrypt returned, with the same
\* password and parameters, returns exactly the text that was encrypted,
\* for every non-empty text.
C1_RoundTripEveryText ==
    (Done("decrypt") /\ DecryptsLastToken /\ call.password = last.password)
        => Returned(last.text)

\* C1 amended: the round trip returns exactly the text for every non-empty
\* text that is a well formed string (no unpaired surrogate code unit).
C1_RoundTripWellFormedText ==
    (Done("decrypt") /\ DecryptsLastToken /\ call.password = last.password
        /\ WellFormed(last.text))
        => Returned(last.text)

C1_Witness ==
    /\ Done("decrypt") /\ DecryptsLastToken /\ call.password = last.password
    /\ last.text = <<97, 55357, 56832>>
    /\ settings.algorithm = "aes-192-gcm"
    /\ settings.saltLength = 1
    /\ Returned(last.text)

\* The call passed the check at its entry (a non-empty text, a string of at
\* least three fields).
PassedEntryCheck ==
    \/ call.op = "encrypt" /\ Len(call.text) > 0
    \/ call.op = "decrypt" /\ Len(Split(call.text)) >= 3

WrongKeyLength ==
    /\ settings.algorithm \in SupportedAlgorithms
    /\ settings.keyLength # RequiredKeyLength(settings.algorithm)

\* C2 as stated, for the calls that pass the entry check: with a supported
\* algorithm and a key length other than the required one the call fails
\* with KeyLengthMismatch, and at that moment no random bytes have been
\* drawn and no cipher or decipher has been constructed.
C2_KeyLengthRejectedBeforeRandomness ==
    (pc = "done" /\ PassedEntryCheck /\ WrongKeyLength)
        => (Failed("KeyLengthMismatch") /\ rngCalls = 0 /\ ~cipher)

\* C2 amended: such a call fails with KeyLengthMismatch before any key is
\* derived and before any cipher or decipher is constructed; decrypt has
\* drawn no random bytes, encrypt has already drawn both salt and IV.
C2_KeyLengthRejectedBeforeDerivation ==
    (pc = "done" /\ PassedEntryCheck /\ WrongKeyLength)
        => /\ Failed("KeyLengthMismatch")
           /\ ~derived /\ ~cipher /\ key = <<>>
           /\ call.op = "decrypt" => rngCalls = 0
           /\ call.op = "encrypt" =>
                 (rngCalls = 2 /\ Len(salt) = settings.saltLength
                               /\ Len(iv) = settings.ivLength)

C2_Witness ==
    /\ Done("encrypt") /\ WrongKeyLength /\ Failed("KeyLengthMismatch")
    /\ rngCalls = 2
    /\ settings.ivLength # RequiredIvLength(settings.algorithm)

\* C3: on both paths validation comes first: while a call whose validation
\* failed is running or has ended, no key has been derived and no cipher or
\* decipher created; a key is derived, and a cipher or decipher created,
\* only after validation returned Ok.
C3_ValidationPrecedesCrypto ==
    /\ validation.outcome \notin {"none", "Ok"} => (~derived /\ ~cipher /\ key = <<>>)
    /\ derived => validation.outcome = "Ok"
    /\ cipher => validation.outcome = "Ok"
    /\ pc \in {"enc_derive", "enc_cipher", "enc_final", "dec_derive", "dec_decipher",
               "dec_tag", "dec_settag", "dec_final"} => validation.outcome = "Ok"

C3_Witness ==
    /\ Done("decrypt")
    /\ validation.outcome = "IVLengthMismatch"
    /\ Failed("IVLengthMismatch")
    /\ ~derived

\* C4: decrypting a token with a password other than the one that made it
\* never returns the original text: a GCM algorithm fails with
\* AuthenticationFailed, a CBC algorithm fails with PaddingOrKeyError or
\* returns another text.
C4_WrongPasswordFails ==
    (Done("decrypt") /\ DecryptsLastToken /\ call.password # last.password)
        => /\ ~Returned(last.text)
           /\ settings.algorithm \in GcmIdentifiers => Failed("AuthenticationFailed")
           /\ settings.algorithm \in CbcIdentifiers =>
                 \/ Failed("PaddingOrKeyError")
                 \/ (result.kind = "ok" /\ result.value # last.text)

\* decrypt is running on, or has finished with, the last GCM token with its
\* ciphertext field or its tag field replaced by one that decodes to other
\* bytes; salt, IV, password and parameters are unchanged.
DecryptsTamperedGcmToken ==
    /\ call.op = "decrypt" /\ last.kind = "ok"
    /\ settings.algorithm \in GcmIdentifiers
    /\ call.password = last.password
    /\ LET f == Split(call.text)
           g == Split(last.token)
       IN /\ Len(f) = 4
          /\ f[1] = g[1] /\ f[2] = g[2]
          /\ HexDecode(f[3]) # HexDecode(g[3]) \/ HexDecode(f[4]) # HexDecode(g[4])

\* C5: a GCM token whose ciphertext field or tag field was replaced by a
\* different value makes decrypt fail (with AuthenticationFailed, the claim
\* says): decrypt never returns a plaintext for it.
C5_TamperedGcmTokenNeverDecrypts ==
    (pc = "done" /\ DecryptsTamperedGcmToken) => result.kind = "error"

\* C6: a token returned by encrypt has four fields exactly for the GCM
\* algorithms and three fields exactly for the CBC algorithms; its salt
\* field is the hex of saltLength bytes and its IV field that of ivLength
\* bytes.
C6_TokenFraming ==
    (Done("encrypt") /\ result.kind = "ok")
        => LET f == Split(result.value) IN
           /\ Len(f) \in {3, 4}
           /\ Len(f) = 4 <=> settings.algorithm \in GcmIdentifiers
           /\ Len(f) = 3 <=> settings.algorithm \in CbcIdentifiers
           /\ Len(f[1]) = 2 * settings.saltLength
           /\ Len(HexDecode(f[1])) = settings.saltLength
           /\ Len(f[2]) = 2 * settings.ivLength
           /\ Len(HexDecode(f[2])) = settings.ivLength
           /\ \A k \in 1..Len(f) : \A j \in 1..Len(f[k]) : IsHexDigit(f[k][j])

C6_Witness ==
    /\ Done("encrypt") /\ result.kind = "ok"
    /\ settings.algorithm = "aes-128-cbc"
    /\ settings.saltLength = 1
    /\ Len(Split(result.value)) = 3

\* C7: a string of fewer than three colon-delimited fields makes decrypt
\* fail with MalformedToken under every password and every configuration,
\* and no key is derived.
C7_MalformedTokenRejectedFirst ==
    (call.op = "decrypt" /\ Len(Split(call.text)) < 3)
        => /\ pc = "done" /\ Failed("MalformedToken")
           /\ ~derived /\ key = <<>> /\ validation.outcome = "none"

C7_Witness ==
    /\ Done("decrypt") /\ Len(Split(call.text)) = 2
    /\ settings.algorithm \notin SupportedAlgorithms
    /\ Failed("MalformedToken")

\* C8 as stated: under a GCM algorithm every string of exactly three fields
\* makes decrypt fail with MissingAuthTag.
C8_ThreeFieldsUnderGcmMissTag ==
    (Done("decrypt") /\ settings.algorithm \in GcmIdentifiers
        /\ Len(Split(call.text)) = 3)
        => Failed("MissingAuthTag")

\* C8 amended: under a GCM algorithm, with the key length that algorithm
\* requires, every string of exactly three fields whose second field is
\* the hex of 12 bytes makes decrypt fail with MissingAuthTag.
C8_ValidThreeFieldsUnderGcmMissTag ==
    (Done("decrypt") /\ settings.algorithm \in GcmIdentifiers
        /\ Len(Split(call.text)) = 3
        /\ settings.keyLength = RequiredKeyLength(settings.algorithm)
        /\ Len(HexDecode(Split(call.text)[2])) = 12)
        => Failed("MissingAuthTag")

C8_Witness ==
    /\ Done("decrypt") /\ settings.algorithm \in GcmIdentifiers
    /\ last.kind = "ok"
    /\ call.text = Join(SubSeq(Split(last.token), 1, 3))
    /\ Failed("MissingAuthTag")

\* What the parameter table of the specification says of a call of validate.
TableVerdict(a, keyLength, ivLength) ==
    IF a \notin (GcmIdentifiers \cup CbcIdentifiers) THEN "InvalidAlgorithm"
    ELSE IF keyLength # RequiredKeyLength(a) THEN "KeyLengthMismatch"
    ELSE IF ivLength # RequiredIvLength(a) THEN "IVLengthMismatch"
    ELSE "Ok"

\* C9: every call of validate agrees with the six-entry table:
\* InvalidAlgorithm exactly for an identifier outside the six, else
\* KeyLengthMismatch exactly for a wrong key length, else IVLengthMismatch
\* exactly for a wrong IV length, else Ok.
C9_ValidateAgreesWithTable ==
    validation.outcome # "none"
        => validation.outcome =
              TableVerdict(validation.algorithm, validation.keyLength, validation.ivLength)

\* decrypt is running on, or has finished with, the last token followed by
\* a colon and further text.
DecryptsExtendedToken ==
    /\ call.op = "decrypt" /\ last.kind = "ok"
    /\ \E x \in Suffixes : call.text = last.token \o <<":">> \o x

\* C10: fields after the third (CBC) or fourth (GCM) are ignored: decrypt of
\* a token followed by ':' and any text gives what decrypt of the token
\* gives, never MalformedToken, and returns the text with the password
\* that made the token.
C10_SurplusFieldsIgnored ==
    (pc = "done" /\ DecryptsExtendedToken)
        => /\ result = decrypt(call.password, last.token, settings.algorithm,
                               settings.iterations, settings.keyLength)
           /\ ~Failed("MalformedToken")
           /\ (call.password = last.password /\ WellFormed(last.text))
                 => Returned(last.text)

C10_Witness ==
    /\ pc = "done" /\ DecryptsExtendedToken
    /\ settings.algorithm = "aes-256-gcm"
    /\ call.text = last.token \o <<":", "x", ":", "y">>
    /\ call.password = last.password
    /\ Returned(last.text)

====
